---- MODULE Spec2Model ----
(***************************************************************************)
(* TCP congestion-window simulator (src/main.py).                          *)
(*                                                                         *)
(* The program reads its parameters, builds the receiver-window schedule   *)
(* (update_rcwnd), reads the loss schedule twice (get_working_binary is    *)
(* called from main and again from simulate_tcp_behavior; only the second  *)
(* result is used), then runs the driving loop of simulate_tcp_behavior.   *)
(*                                                                         *)
(* Python floats are modelled in fixed point: a float x is the integer     *)
(* x * Scale.  Every float the program forms from its inputs (a quotient   *)
(* by mss in {1, 2}, a half of an integer, a value rounded to two          *)
(* decimals) is then exact; only the quotient 1 / cwnd of the congestion   *)
(* avoidance branch is rounded, to the nearest 1 / Scale.                  *)
(* Times are entered in ticks and rtt is a whole number of ticks, so that  *)
(* time / rtt is an exact rational.                                        *)
(***************************************************************************)
EXTENDS Integers, Sequences, FiniteSets

\* ---------------------------------------------------------------- bounds
MaxOverrides == 1
MaxIntervals == 2
MaxAcks == 5
MaxSchedOverrides == 2
MaxSchedIntervals == 2

\* ------------------------------------------------------------- constants
Horizon == 65
InitialBackOff == 2
InactiveMark == 0 - 1
ErrorMark == 0 - 1
Scale == 1000 * 1000

Steps == 0 .. (Horizon - 1)

\* ---------------------------------------------------------------- inputs
TotalDataVals == {0, 5, 66, 200}
MssVals == {1, 2}
RttVals == {1, 2}
SsthreshVals == {1, 2, 100}
RcwndTimes == {0, 6}
RcwndVals == {8, 100}
ErrIntervals == {<<0, 1>>, <<5, 6>>, <<0, 7>>, <<0, 63>>, <<60, 70>>}
ExitTimes == {1000}

\* Inputs of the schedule construction on its own: also times before 0.
SchedRcwndTimes == {0 - 3, 0, 6, 20}
SchedIntervals == {<<0, 7>>, <<5, 6>>, <<60, 70>>, <<0 - 3, 2>>}

\* Inputs of a single call of update_cwnd: cwnd[t-1] in hundredths,
\* sndwnd[t-1], ssthresh[t] and rcwnd[t] in segments.
CallCwndVals == {100, 200, 250, 300, 355, 1000}
CallSndwndVals == 0 .. MaxAcks
CallSsthreshVals == {2, 5, 10}
CallRcwndVals == {1, 3, 100}

\* --------------------------------------------------------------- helpers
Min(a, b) == IF a <= b THEN a ELSE b
Max(a, b) == IF a >= b THEN a ELSE b

\* Python int(a / b) for integers a and b > 0: truncation toward zero.
TruncDiv(a, b) == IF a >= 0 THEN a \div b ELSE 0 - ((0 - a) \div b)

\* Python int(x) of a float x.
PyInt(x) == TruncDiv(x, Scale)

\* math.floor(x) of a float x, as the specification writes it.
Floor(x) == x \div Scale

\* Mutant: the tie-break rounds down instead of up.
PyCeilDown(x) == (x \div Scale) * Scale

\* math.ceil(x) of a float x.
PyCeil(x) == IF x % Scale = 0 THEN x ELSE ((x \div Scale) + 1) * Scale

\* round(x, 2): to the nearest hundredth, ties to the even hundredth.
Round2(x) ==
    LET u == Scale \div 100
        q == x \div u
        r == x % u
    IN  IF 2 * r > u \/ (2 * r = u /\ q % 2 = 1) THEN (q + 1) * u ELSE q * u

\* k further decimal digits of the quotient q + r / d.
RECURSIVE LongDiv(_, _, _, _)
LongDiv(q, r, d, k) ==
    IF k = 0 THEN q
    ELSE LongDiv(q * 10 + ((r * 10) \div d), (r * 10) % d, d, k - 1)

\* The float 1 / x, x >= 1: Scale * Scale / x rounded to the nearest unit.
Recip(x) ==
    LET n == Scale * 1000
    IN  (LongDiv(n \div x, n % x, x, 4) + 5) \div 10

\* Mutant: the receiver window is left out of the minimum.
SendWindowCwndOnly(rc, cw) == PyInt(cw)

\* min(int(rcwnd[t]), int(cwnd[t]))
SendWindow(rc, cw) == Min(PyInt(rc), PyInt(cw))

\* Mutant: the flight is not capped by the packets that remain.
FlightSizeUncapped(snd, tp, sent) == snd

\* Mutant: the cap by the packets that remain is one too high.
FlightSizeOneMore(snd, tp, sent) == Min(snd, PyInt(tp - sent * Scale) + 1)

\* min(int(sndwnd[t]), int(total_packets - total_sent))
FlightSize(snd, tp, sent) == Min(snd, PyInt(tp - sent * Scale))

\* One acknowledged segment: slow start below ssthresh, else avoidance.
Grow(c, ss) == IF c < ss THEN c + Scale ELSE c + Recip(c)

\* Mutant: the loop over the acknowledgments runs one pass short.
RECURSIVE AckLoopShort(_, _, _)
AckLoopShort(c, n, ss) ==
    IF n <= 1 THEN c ELSE AckLoopShort(Grow(c, ss), n - 1, ss)

\* for _ in range(int(sndwnd[t-1])): ...
RECURSIVE AckLoop(_, _, _)
AckLoop(c, n, ss) == IF n <= 0 THEN c ELSE AckLoop(Grow(c, ss), n - 1, ss)

\* The 0.55 tie-break of update_cwnd.
TieBreak(c, snd) ==
    IF snd = PyInt(c) /\ c - PyInt(c) * Scale > (55 * Scale) \div 100
    THEN PyCeil(c) ELSE c

\* update_cwnd(cwnd, t, sndwnd, ssthresh, rcwnd) for tt in Steps, tt >= 1:
\* the arrays cwnd and sndwnd after the call.
update_cwnd(cw, tt, sw, ss, rc) ==
    LET grown == AckLoop(cw[tt - 1], sw[tt - 1], ss[tt])
        snd == SendWindow(rc[tt], grown)
    IN  [cwnd |-> [cw EXCEPT ![tt] = Round2(TieBreak(grown, snd))],
         sndwnd |-> [sw EXCEPT ![tt] = snd]]

\* Mutant: the flight size is not halved.
LossThresholdWhole(flight) == Max(2 * Scale, flight * Scale)

\* Mutant: the threshold is floored at 4 instead of 2.
LossThresholdFloorFour(flight) == Max(4 * Scale, (flight * Scale) \div 2)

\* max(2, flight_size / 2)
LossThreshold(flight) == Max(2 * Scale, (flight * Scale) \div 2)

\* Mutant: the revision rewrites every step, not only those from nt on.
ReviseAll(ss, nt, flight) == [x \in Steps |-> LossThreshold(flight)]

\* for x in range(t, 65): ssthresh[x] = max(2, flight_size / 2)
ReviseFrom(ss, nt, flight) ==
    [x \in Steps |-> IF x >= nt THEN LossThreshold(flight) ELSE ss[x]]

\* Mutant: the multiplier grows by 2 instead of doubling.
DoubleBackOffAdd(b) == b + 2

\* back_off *= 2
DoubleBackOff(b) == b * 2

\* Mutant: the window restarts at 0 after a loss.
LossCwndZero == 0 * Scale

\* The value of "cwnd[t] = 1" after a loss.
LossCwnd == 1 * Scale

\* ----------------------------------------------------------------- state
VARIABLES pc, err, total_data, mss, rtt, total_packets, ssthresh, rcwnd,
          working_binary, cwnd, sndwnd, back_off, total_sent, t,
          noverrides, nintervals, processed, last, streak,
          given, overrides, oob

params == <<total_data, mss, rtt, total_packets>>
hist == <<processed, last, streak>>
sched == <<given, overrides>>
run == <<cwnd, sndwnd, back_off, total_sent, t>>
vars == <<pc, err, total_data, mss, rtt, total_packets, ssthresh, rcwnd,
          working_binary, cwnd, sndwnd, back_off, total_sent, t,
          noverrides, nintervals, processed, last, streak,
          given, overrides, oob>>

NoIteration == [kind |-> "none", t |-> 0, b |-> 0, flight |-> 0]

\* initialize_parameters, and the locals simulate_tcp_behavior starts with.
InitWith(ssvals) ==
    /\ pc = "update_rcwnd"
    /\ err = "none"
    /\ total_data \in TotalDataVals
    /\ mss \in MssVals
    /\ rtt \in RttVals
    /\ total_packets = (total_data * Scale) \div mss
    /\ \E v \in ssvals : ssthresh = [x \in Steps |-> (v * Scale) \div mss]
    /\ rcwnd = [x \in Steps |-> Scale]
    /\ working_binary = [x \in Steps |-> 0]
    /\ cwnd = [x \in Steps |-> Scale]
    /\ sndwnd = [x \in Steps |-> 1]
    /\ back_off = InitialBackOff
    /\ total_sent = 0
    /\ t = 0
    /\ noverrides = 0
    /\ nintervals = 0
    /\ processed = {}
    /\ last = NoIteration
    /\ streak = 0
    /\ given = {}
    /\ overrides = <<>>
    /\ oob = "none"

Init == InitWith(SsthreshVals)

\* Python list indexing: the position lst[i] names, for -Horizon <= i < Horizon.
PyIndex(i) == IF i < 0 THEN i + Horizon ELSE i

InRange(i) == i >= 0 - Horizon /\ i < Horizon

\* The positions written by "for idx in range(lo, hi): lst[idx] = ..." before
\* the loop ends or an index raises IndexError.
Written(lo, hi) ==
    IF lo < 0 - Horizon THEN {}
    ELSE {PyIndex(i) : i \in lo .. Min(hi - 1, Horizon - 1)}

Raises(lo, hi) == lo < hi /\ (~InRange(lo) \/ ~InRange(hi - 1))

\* ------------------------------------------------ receiver-window schedule
\* Mutant: an override rewrites the whole list.
OverrideRangeAll(lo) == Steps

\* The positions "for idx in range(int(update_time), 65)" writes.
OverrideRange(lo) == Written(lo, Horizon)

\* One pass of the loop of update_rcwnd that stores an override, the time and
\* the value read from the given sets, at most max passes.
RcwndOverrideFrom(times, vals, max) ==
    /\ pc = "update_rcwnd"
    /\ noverrides < max
    /\ \E time \in times, val \in vals :
          /\ ~(time > Horizon * rtt)
          /\ LET lo == TruncDiv(time, rtt)
                 new_val == (val * Scale) \div mss
             IN  /\ rcwnd' = [x \in Steps |->
                                IF x \in OverrideRange(lo) THEN new_val
                                ELSE rcwnd[x]]
                 /\ IF Raises(lo, Horizon)
                    THEN pc' = "crashed" /\ err' = "IndexError"
                    ELSE pc' = pc /\ err' = err
                 /\ oob' = IF lo < 0 THEN "rcwnd" ELSE oob
          /\ overrides' = Append(overrides, <<time, val>>)
    /\ noverrides' = noverrides + 1
    /\ UNCHANGED <<params, ssthresh, working_binary, run, nintervals, hist,
                   given>>

RcwndOverride == RcwndOverrideFrom(RcwndTimes, RcwndVals, MaxOverrides)

\* The pass of the loop of update_rcwnd that reads a time beyond the horizon.
RcwndExit ==
    /\ pc = "update_rcwnd"
    /\ \E time \in ExitTimes : time > Horizon * rtt
    /\ pc' = "wb_main"
    /\ UNCHANGED <<err, params, ssthresh, rcwnd, working_binary, run,
                   noverrides, nintervals, hist, sched, oob>>

\* ------------------------------------------------------------ loss schedule
\* One pass of the loop of get_working_binary that marks an interval read
\* from the given set, at most max passes.
ErrorIntervalFrom(intervals, max) ==
    /\ pc \in {"wb_main", "wb_sim"}
    /\ nintervals < max
    /\ \E iv \in intervals :
          /\ ~(iv[1] > 100 * rtt)
          /\ LET lo == TruncDiv(iv[1], rtt)
                 hi == TruncDiv(iv[2], rtt)
             IN  /\ working_binary' = [x \in Steps |->
                                IF x \in Written(lo, hi) THEN ErrorMark
                                ELSE working_binary[x]]
                 /\ IF Raises(lo, hi)
                    THEN pc' = "crashed" /\ err' = "IndexError"
                    ELSE pc' = pc /\ err' = err
                 /\ oob' = IF lo < hi /\ (lo < 0 \/ hi > Horizon)
                           THEN "working_binary" ELSE oob
          /\ given' = given \cup {iv}
    /\ nintervals' = nintervals + 1
    /\ UNCHANGED <<params, ssthresh, rcwnd, run, noverrides, hist, overrides>>

ErrorInterval == ErrorIntervalFrom(ErrIntervals, MaxIntervals)

\* The pass that reads a start time beyond 100 round trips, in the call from
\* main: the list it returns is dropped, simulate_tcp_behavior asks again.
ErrorExitMain ==
    /\ pc = "wb_main"
    /\ \E time \in ExitTimes : time > 100 * rtt
    /\ pc' = "wb_sim"
    /\ working_binary' = [x \in Steps |-> 0]
    /\ nintervals' = 0
    /\ given' = {}
    /\ UNCHANGED <<err, params, ssthresh, rcwnd, run, noverrides, hist,
                   overrides, oob>>

\* The same pass in the call from simulate_tcp_behavior.
ErrorExitSim ==
    /\ pc = "wb_sim"
    /\ \E time \in ExitTimes : time > 100 * rtt
    /\ pc' = "loop"
    /\ UNCHANGED <<err, params, ssthresh, rcwnd, working_binary, run,
                   noverrides, nintervals, hist, sched, oob>>

\* ------------------------------------------------------------ driving loop
\* while total_sent < total_packets and t < 65
LoopCondition == total_sent * Scale < total_packets /\ t < Horizon

\* A pass of the loop at a step that is not marked as an error: the window is
\* sent, and either the transfer is complete (break) or t advances and
\* update_cwnd computes the next window.  update_cwnd raises IndexError when
\* the advance leaves the arrays.
NormalStep ==
    /\ pc = "loop"
    /\ LoopCondition
    /\ working_binary[t] = 0
    /\ LET snd == SendWindow(rcwnd[t], cwnd[t])
           flight_size == FlightSize(snd, total_packets, total_sent)
           sw == [sndwnd EXCEPT ![t] = snd]
           sent == total_sent + flight_size
       IN  /\ back_off' = InitialBackOff
           /\ total_sent' = sent
           /\ last' = [kind |-> "normal", t |-> t, b |-> back_off,
                       flight |-> flight_size]
           /\ IF sent * Scale = total_packets
              THEN /\ pc' = "inactive"
                   /\ t' = t
                   /\ sndwnd' = sw
                   /\ UNCHANGED <<cwnd, err>>
              ELSE /\ t' = t + 1
                   /\ IF t + 1 < Horizon
                      THEN /\ cwnd' = update_cwnd(cwnd, t + 1, sw, ssthresh, rcwnd).cwnd
                           /\ sndwnd' = update_cwnd(cwnd, t + 1, sw, ssthresh, rcwnd).sndwnd
                           /\ UNCHANGED <<pc, err>>
                      ELSE /\ pc' = "crashed"
                           /\ err' = "IndexError"
                           /\ sndwnd' = sw
                           /\ UNCHANGED cwnd
           /\ oob' = IF sent * Scale # total_packets /\ t + 1 >= Horizon
                     THEN "cwnd" ELSE oob
    /\ processed' = processed \cup {t}
    /\ streak' = 0
    /\ UNCHANGED <<params, ssthresh, rcwnd, working_binary, noverrides,
                   nintervals, sched>>

\* A pass of the loop at a step marked as an error: t skips back_off steps,
\* back_off doubles, cwnd restarts at 1 and ssthresh is rewritten from the new
\* step on.  The assignment cwnd[t] = 1 raises IndexError when the skip leaves
\* the arrays.
LossStep ==
    /\ pc = "loop"
    /\ LoopCondition
    /\ working_binary[t] = ErrorMark
    /\ LET snd == SendWindow(rcwnd[t], cwnd[t])
           flight_size == FlightSize(snd, total_packets, total_sent)
           nt == t + back_off
       IN  /\ sndwnd' = [sndwnd EXCEPT ![t] = snd]
           /\ t' = nt
           /\ back_off' = DoubleBackOff(back_off)
           /\ last' = [kind |-> "loss", t |-> t, b |-> back_off,
                       flight |-> flight_size]
           /\ IF nt < Horizon
              THEN /\ cwnd' = [cwnd EXCEPT ![nt] = LossCwnd]
                   /\ ssthresh' = ReviseFrom(ssthresh, nt, flight_size)
                   /\ UNCHANGED <<pc, err, oob>>
              ELSE /\ pc' = "crashed"
                   /\ err' = "IndexError"
                   /\ oob' = "cwnd"
                   /\ UNCHANGED <<cwnd, ssthresh>>
    /\ processed' = processed \cup {t}
    /\ streak' = streak + 1
    /\ UNCHANGED <<params, rcwnd, working_binary, total_sent, noverrides,
                   nintervals, sched>>

\* The loop condition fails.
LoopExit ==
    /\ pc = "loop"
    /\ ~LoopCondition
    /\ pc' = "inactive"
    /\ UNCHANGED <<err, params, ssthresh, rcwnd, working_binary, run,
                   noverrides, nintervals, hist, sched, oob>>

\* After the loop: the steps from t on, then the steps marked as errors, get
\* the inactive mark in sndwnd.
MarkInactive ==
    /\ pc = "inactive"
    /\ sndwnd' = [x \in Steps |->
                    IF x >= t \/ working_binary[x] = ErrorMark
                    THEN InactiveMark ELSE sndwnd[x]]
    /\ t' = Max(t, Horizon)
    /\ pc' = "done"
    /\ UNCHANGED <<err, params, ssthresh, rcwnd, working_binary, cwnd,
                   back_off, total_sent, noverrides, nintervals, hist, sched,
                   oob>>

Next ==
    \/ RcwndOverride
    \/ RcwndExit
    \/ ErrorInterval
    \/ ErrorExitMain
    \/ ErrorExitSim
    \/ NormalStep
    \/ LossStep
    \/ LoopExit
    \/ MarkInactive

Spec == Init /\ [][Next]_vars

\* ------------------------------------------------- update_cwnd on its own
\* A call update_cwnd(cwnd, 1, sndwnd, ssthresh, rcwnd) on arrays whose
\* entries at t - 1 and t are drawn from the input sets.
InitCall ==
    /\ pc = "update_cwnd"
    /\ err = "none"
    /\ total_data = 0 /\ mss = 1 /\ rtt = 1 /\ total_packets = 0
    /\ \E v \in CallSsthreshVals : ssthresh = [x \in Steps |-> v * Scale]
    /\ \E v \in CallRcwndVals : rcwnd = [x \in Steps |-> v * Scale]
    /\ working_binary = [x \in Steps |-> 0]
    /\ \E c \in CallCwndVals :
          cwnd = [x \in Steps |-> IF x = 0 THEN c * (Scale \div 100) ELSE Scale]
    /\ \E n \in CallSndwndVals :
          sndwnd = [x \in Steps |-> IF x = 0 THEN n ELSE 1]
    /\ back_off = InitialBackOff
    /\ total_sent = 0
    /\ t = 1
    /\ noverrides = 0
    /\ nintervals = 0
    /\ processed = {}
    /\ last = NoIteration
    /\ streak = 0
    /\ given = {}
    /\ overrides = <<>>
    /\ oob = "none"

CallUpdate ==
    /\ pc = "update_cwnd"
    /\ cwnd' = update_cwnd(cwnd, t, sndwnd, ssthresh, rcwnd).cwnd
    /\ sndwnd' = update_cwnd(cwnd, t, sndwnd, ssthresh, rcwnd).sndwnd
    /\ pc' = "returned"
    /\ UNCHANGED <<err, params, ssthresh, rcwnd, working_binary, back_off,
                   total_sent, t, noverrides, nintervals, hist, sched, oob>>

NextCall == CallUpdate

SpecCall == InitCall /\ [][NextCall]_vars

\* ------------------------------------------ schedule construction on its own
\* update_rcwnd and the two calls of get_working_binary, up to the entry of
\* the driving loop, with times before 0 among the inputs.
InitSched == Init /\ total_data = 5 /\ ssthresh[0] * mss = 100 * Scale

SchedRcwndOverride ==
    RcwndOverrideFrom(SchedRcwndTimes, RcwndVals, MaxSchedOverrides)

SchedErrorInterval == ErrorIntervalFrom(SchedIntervals, MaxSchedIntervals)

NextSched ==
    \/ SchedRcwndOverride
    \/ RcwndExit
    \/ SchedErrorInterval
    \/ ErrorExitMain
    \/ ErrorExitSim

SpecSched == InitSched /\ [][NextSched]_vars

\* The runs whose operator-supplied threshold is at least two segments.
InitFloor == Init /\ ssthresh[0] >= 2 * Scale

SpecFloor == InitFloor /\ [][Next]_vars

\* How the run ended: the program draws the completion marker on break and
\* otherwise just leaves the loop; an uncaught IndexError ends it abnormally.
Outcome ==
    IF pc = "crashed" THEN "ERROR"
    ELSE IF pc \notin {"inactive", "done"} THEN "RUNNING"
    ELSE IF total_sent * Scale >= total_packets THEN "COMPLETE"
    ELSE "HORIZON_EXHAUSTED"

NoLoss == \A x \in Steps : working_binary[x] = 0

\* The driving loop has been entered (the schedules are final).
Started == pc \in {"loop", "inactive", "done"} \/ last.kind # "none"

\* ------------------------------------------------------------ type check
TypeOK ==
    /\ pc \in {"update_rcwnd", "wb_main", "wb_sim", "loop", "inactive",
                "done", "crashed", "update_cwnd", "returned"}
    /\ t \in 0 .. (3 * Horizon)
    /\ working_binary \in [Steps -> {0, ErrorMark}]

\* ---------------------------------------------------------------- claims
\* C1: when the packets required cannot be sent within the horizon, a normal
\* step at t = 64 that does not complete the transfer ends the run in the
\* outcome HORIZON_EXHAUSTED with total_sent < total_packets, without calling
\* update_cwnd and without an error.
C1_HorizonExhausted ==
    (last.kind = "normal" /\ last.t = Horizon - 1
        /\ total_sent * Scale < total_packets)
    => (err = "none" /\ Outcome = "HORIZON_EXHAUSTED")

\* C2: every step the loop has processed, unless its send window has been
\* overwritten with the inactive mark, has
\* sndwnd[x] = min(floor(rcwnd[x]), floor(cwnd[x])), until the end of the run.
C2_SendWindowOfProcessed ==
    \A x \in processed :
        \/ pc = "done" /\ sndwnd[x] = InactiveMark
        \/ sndwnd[x] = Min(Floor(rcwnd[x]), Floor(cwnd[x]))

C2_Witness ==
    /\ pc = "done"
    /\ ~NoLoss
    /\ \E x, y \in processed :
          /\ sndwnd[x] # InactiveMark /\ sndwnd[y] # InactiveMark
          /\ sndwnd[x] = Floor(rcwnd[x]) /\ Floor(rcwnd[x]) < Floor(cwnd[x])
          /\ sndwnd[y] = Floor(cwnd[y]) /\ Floor(cwnd[y]) < Floor(rcwnd[y])

\* The pass of the loop about to run is a loss event.
AtLoss == pc = "loop" /\ LoopCondition /\ working_binary[t] = ErrorMark

\* min(sndwnd[t], remaining packets) as the loop computes it at step t.
FlightAtStep ==
    Min(Min(Floor(rcwnd[t]), Floor(cwnd[t])),
        Floor(total_packets - total_sent * Scale))

\* C3: a loss event at step t with multiplier b, t + b <= 64, makes t + b the
\* next step the loop processes, sets cwnd[t + b] to 1 and sets ssthresh[x] to
\* max(2, flight_size / 2) for every x from t + b to 64; nothing but a later
\* loss event changes ssthresh.
C3_LossTransition ==
    [][((AtLoss /\ t + back_off <= Horizon - 1)
          => (/\ t' = t + back_off
              /\ pc' = "loop"
              /\ LoopCondition'
              /\ cwnd'[t + back_off] = Scale
              /\ \A x \in (t + back_off) .. (Horizon - 1) :
                    2 * ssthresh'[x] = Max(4, FlightAtStep) * Scale))
       /\ (~AtLoss => ssthresh' = ssthresh)]_vars

C3_Witness ==
    /\ pc = "loop"
    /\ last.kind = "loss" /\ last.flight > 4
    /\ t = last.t + last.b /\ t < Horizon - 1
    /\ cwnd[t] = Scale
    /\ 2 * ssthresh[Horizon - 1] = last.flight * Scale

RECURSIVE Pow2(_)
Pow2(k) == IF k = 0 THEN 1 ELSE 2 * Pow2(k - 1)

\* C4: the backoff multiplier is 2 at the start and after every normal step,
\* and doubles at every loss event: after k loss events with no normal step
\* between them it is 2^(k+1), and the k-th of them skipped 2^k steps.
C4_BackoffDoubling ==
    /\ back_off = Pow2(streak + 1)
    /\ (last.kind = "none" => (back_off = 2 /\ streak = 0))
    /\ (last.kind = "normal" => (back_off = 2 /\ streak = 0))
    /\ (last.kind = "loss" =>
          (/\ streak >= 1
           /\ last.b = Pow2(streak)
           /\ t = last.t + Pow2(streak)))

C4_Witness == pc = "loop" /\ streak = 3 /\ back_off = 16 /\ last.b = 8

C6_CwndAtLeastOne == \A x \in Steps : cwnd[x] >= Scale

C6_Witness ==
    /\ pc = "loop"
    /\ last.kind = "loss" /\ last.b >= 4
    /\ cwnd[t] = Scale
    /\ \E x \in processed : cwnd[x] > Scale /\ cwnd[x] % Scale # 0

\* C7: ssthresh[x] >= 2 for every step x, in every state from initialization.
C7_SsthreshAtLeastTwo == \A x \in Steps : ssthresh[x] >= 2 * Scale

\* C8: in a run with no lost step, cwnd[x] >= cwnd[x - 1] for every processed
\* step x >= 1.
C8_NoLossMonotone ==
    (Started /\ NoLoss) =>
        \A x \in processed \cup ({t} \cap Steps) :
            x >= 1 => cwnd[x] >= cwnd[x - 1]

C8_Witness ==
    /\ pc = "done" /\ NoLoss /\ Outcome = "COMPLETE"
    /\ \E x, y \in processed :
          /\ x >= 1 /\ cwnd[x] > cwnd[x - 1] /\ cwnd[x] % Scale # 0
          /\ y >= 1 /\ cwnd[y] = cwnd[y - 1] + Scale

\* The scenario of C9: 5 packets, threshold and receiver window 100, no loss.
C9_Scenario ==
    /\ Started /\ NoLoss
    /\ total_packets = 5 * Scale
    /\ \A x \in Steps : ssthresh[x] = 100 * Scale /\ rcwnd[x] = 100 * Scale

\* C9: in that scenario the loop sends 1, 2 and 2 packets at steps 0, 1, 2 and
\* the run ends COMPLETE at a step k <= 3 with total_sent = 5.
C9_CompletesByStepThree ==
    C9_Scenario =>
        /\ err = "none"
        /\ t <= 3 \/ pc = "done"
        /\ total_sent <= 5
        /\ (last.kind # "none" =>
              (/\ last.kind = "normal" /\ last.t <= 3
               /\ last.flight = (IF last.t = 0 THEN 1 ELSE 2)))
        /\ (pc = "loop" => total_sent < 5)
        /\ (pc \in {"inactive", "done"} =>
              (total_sent = 5 /\ Outcome = "COMPLETE" /\ last.t <= 3))

C9_Witness == C9_Scenario /\ pc = "done" /\ total_sent = 5 /\ last.t = 2

\* C10: when cwnd[t-1] is a whole number and cwnd[t-1] + sndwnd[t-1] is at most
\* ssthresh[t], update_cwnd leaves cwnd[t] = cwnd[t-1] + sndwnd[t-1] exactly.
C10_SlowStartExact ==
    [][(/\ pc = "update_cwnd"
        /\ cwnd[t - 1] % Scale = 0
        /\ cwnd[t - 1] + sndwnd[t - 1] * Scale <= ssthresh[t])
       => cwnd'[t] = cwnd[t - 1] + sndwnd[t - 1] * Scale]_vars

C10_Witness ==
    /\ pc = "returned"
    /\ cwnd[0] = 3 * Scale /\ sndwnd[0] = 4 /\ ssthresh[1] = 10 * Scale
    /\ cwnd[1] = 7 * Scale

\* floor(time / rtt), the step of a time as the specification converts it.
StepOf(time) == time \div rtt

\* The steps the intervals read so far cover: the union of the ranges
\* [floor(start / rtt), floor(end / rtt)).
Covered == {x \in Steps : \E iv \in given : StepOf(iv[1]) <= x /\ x < StepOf(iv[2])}

\* A call of get_working_binary is under way or has returned its list.
ScheduleBuilt == pc \in {"wb_main", "wb_sim", "loop"}

\* C11: the list get_working_binary builds marks exactly the union of the
\* step ranges of the intervals read, whatever their order and overlaps.
C11_MarksExactlyUnion ==
    ScheduleBuilt =>
        \A x \in Steps : working_binary[x] = ErrorMark <=> x \in Covered

\* The same for intervals whose steps all lie within the horizon.
AllWithinHorizon ==
    \A iv \in given : StepOf(iv[1]) >= 0 /\ StepOf(iv[2]) <= Horizon

MarksUnionWithinHorizon ==
    (ScheduleBuilt /\ AllWithinHorizon) =>
        \A x \in Steps : working_binary[x] = ErrorMark <=> x \in Covered

\* The overrides were read in increasing time order.
InTimeOrder ==
    \A i, j \in 1 .. Len(overrides) :
        i < j => overrides[i][1] <= overrides[j][1]

\* The override in force at step x: the one with the greatest step <= x (the
\* last one read, among equal steps); 0 if no override has a step <= x.
InForce(x) ==
    LET S == {i \in 1 .. Len(overrides) : StepOf(overrides[i][1]) <= x}
    IN  IF S = {} THEN 0
        ELSE CHOOSE i \in S :
                \A j \in S :
                    \/ StepOf(overrides[j][1]) < StepOf(overrides[i][1])
                    \/ StepOf(overrides[j][1]) = StepOf(overrides[i][1]) /\ j <= i

\* C12: with overrides read in increasing time order, rcwnd[x] is
\* value / mss of the override with the greatest step <= x, and the initial
\* value 1 if there is none.
C12_PiecewiseConstant ==
    InTimeOrder =>
        \A x \in Steps :
            rcwnd[x] = IF InForce(x) = 0 THEN 1 * Scale
                       ELSE (overrides[InForce(x)][2] * Scale) \div mss

C12_Witness ==
    /\ pc = "loop"
    /\ Len(overrides) = 2
    /\ 0 < StepOf(overrides[1][1])
    /\ StepOf(overrides[1][1]) < StepOf(overrides[2][1])
    /\ overrides[1][2] # overrides[2][2]
    /\ rcwnd[0] = Scale
    /\ rcwnd[StepOf(overrides[1][1])] # rcwnd[Horizon - 1]

\* C13: building the schedules never subscripts working_binary or rcwnd
\* with an index outside 0..64, and so never raises IndexError.
C13_ScheduleIndexWithinSteps ==
    /\ oob \notin {"rcwnd", "working_binary"}
    /\ ~(pc = "crashed" /\ last.kind = "none")

\* C14: a loss event whose skip reaches t + b >= 65 ends the run in
\* HORIZON_EXHAUSTED, without an index >= 65 and without an error.
C14_LossPastHorizon ==
    (last.kind = "loss" /\ last.t + last.b >= Horizon)
    => (err = "none" /\ oob = "none" /\ Outcome = "HORIZON_EXHAUSTED")

\* The last step the loop processed, -1 if it processed none.
FinalProcessed == IF last.kind = "none" THEN 0 - 1 ELSE last.t

\* C15: in the final sndwnd the inactive mark stands at the steps marked lost
\* and at the steps beyond the last processed one, and nowhere else: a step
\* processed as a normal step keeps its computed send window.
C15_MarkOnlyLostAndBeyond ==
    pc = "done" =>
        \A x \in Steps :
            /\ sndwnd[x] = InactiveMark
                  <=> (working_binary[x] = ErrorMark \/ x > FinalProcessed)
            /\ (x \in processed /\ working_binary[x] = 0)
                  => sndwnd[x] = Min(Floor(rcwnd[x]), Floor(cwnd[x]))

\* C16: a loss event leaves total_sent, rcwnd and working_binary unchanged,
\* ssthresh unchanged below the new step t + b, and cwnd unchanged except at
\* t + b.
C16_LossFrame ==
    [][AtLoss =>
         (/\ total_sent' = total_sent
          /\ rcwnd' = rcwnd
          /\ working_binary' = working_binary
          /\ \A x \in Steps :
                /\ (x < t + back_off => ssthresh'[x] = ssthresh[x])
                /\ (x # t + back_off => cwnd'[x] = cwnd[x]))]_vars

C16_Witness ==
    /\ pc = "loop"
    /\ last.kind = "loss" /\ last.t >= 5
    /\ total_sent > 0
    /\ ssthresh[t - 1] # ssthresh[t]
    /\ cwnd[last.t] > cwnd[t]

\* The pass of the loop about to run is a normal step.
AtNormal == pc = "loop" /\ LoopCondition /\ working_binary[t] = 0

\* C17: 0 <= total_sent <= total_packets in every state, total_sent never
\* decreases, and a normal step adds exactly
\* min(sndwnd[t], floor(total_packets - total_sent)).
C17_SentWithinRequired ==
    /\ [](0 <= total_sent /\ total_sent * Scale <= total_packets)
    /\ [][/\ total_sent' >= total_sent
          /\ (AtNormal => total_sent' = total_sent + FlightAtStep)]_vars

C17_Witness ==
    /\ pc = "done"
    /\ total_sent * Scale = total_packets
    /\ last.kind = "normal" /\ last.flight > 0
    /\ last.flight < Min(Floor(rcwnd[last.t]), Floor(cwnd[last.t]))

\* C18: the loop runs at most 65 passes and every run ends in the outcome
\* COMPLETE or HORIZON_EXHAUSTED.
C18_EndsInOutcome ==
    /\ Cardinality(processed) <= Horizon
    /\ (Started /\ pc \in {"inactive", "done", "crashed"})
          => Outcome \in {"COMPLETE", "HORIZON_EXHAUSTED"}

\* C19: with no lost step, rcwnd >= 1 everywhere and
\* 0 < total_packets <= 65, whole or not, the run ends COMPLETE with
\* total_sent equal to total_packets.
C19_CompletesWithinHorizon ==
    (/\ Started /\ NoLoss
     /\ \A x \in Steps : rcwnd[x] >= Scale
     /\ 0 < total_packets /\ total_packets <= Horizon * Scale
     /\ pc \in {"inactive", "done", "crashed"})
    => (Outcome = "COMPLETE" /\ total_sent * Scale = total_packets)

\* C20: after a normal advance to step t + 1, the send window update_cwnd
\* left at t + 1 is min(floor(rcwnd[t + 1]), floor(cwnd[t + 1])) for the
\* window it returned.
C20_UpdaterSendWindowConsistent ==
    [][(AtNormal /\ pc' = "loop" /\ t' = t + 1)
       => sndwnd'[t'] = Min(Floor(rcwnd'[t']), Floor(cwnd'[t']))]_vars

====
